---- MODULE Spec2Model ----
(***************************************************************************)
(* Mandaloop: a shared synthesizer.  One client (the App component with    *)
(* its CommsService and AudioEngine singletons) is modelled as a state     *)
(* machine: local key events, inbound transport notifications and voice    *)
(* disposal timers are the steps.                                          *)
(***************************************************************************)
EXTENDS Integers, Sequences, FiniteSets, TLC

VARIABLES
    localUser,        \* App.localUser: NoUser in the lobby, else a UserState
    remoteUsers,      \* App.remoteUsers: sequence of UserState
    theme,            \* App.theme
    overrideScale,    \* App.overrideScale ("" = none)
    activeChordMode,  \* App.activeChordMode
    ctx,              \* AudioEngine.ctx: 0 = null, n = the n-th master bus built
    activeVoices,     \* AudioEngine.activeVoices: registry key -> Voice
    voices,           \* Voice objects still referenced (registry or timer)
    timers,           \* pending setTimeout disposals, in scheduling order
    startTime,        \* CommsService.connect: const startTime (0 = not connected)
    keysHeld,         \* keyboard: key physically down -> degrees its press sounded
    joinTimer,        \* joinRoom's setTimeout that sends JOIN is pending
    peerRemoteUsers,  \* the roster another client keeps from this client's messages
    eventsRef,        \* server: rooms/{id}/events, the JOIN and SYNC_* children in push order
    usersRef,         \* server: rooms/{id}/users, ids that have a presence record
    inbox,            \* notifications the server has queued for the local listeners
    peer,             \* another client's App: theme, overrideScale, its events cursor
    out               \* what the last handler did: messages, callbacks, engine calls

vars == <<localUser, remoteUsers, theme, overrideScale, activeChordMode, ctx,
          activeVoices, voices, timers, startTime, keysHeld, joinTimer, peerRemoteUsers,
          eventsRef, usersRef, inbox, peer, out>>

appVars == <<localUser, remoteUsers, theme, overrideScale, activeChordMode,
             startTime, keysHeld, joinTimer, peerRemoteUsers>>

roomVars == <<eventsRef, usersRef, inbox, peer>>

engineVars == <<ctx, activeVoices, voices, timers>>

-----------------------------------------------------------------------------
(* Bounds of the model *)

NumChordModes == 2
NumEffectKeys == 0
NumEffects == 2
MaxNoteIndex == 1
MaxEngNote == 0
MaxPending == 1
MaxPendingApp == 0
MaxTime == 2
MaxListLen == 2
MaxPitchIndex == 6
MaxSync == 2
MaxRoster == 1

MaxSent == 3

MaxLog == 4

-----------------------------------------------------------------------------
(* Program constants *)

MAX_POLYPHONY == 5

NoteKeyNames == <<"s", "d", "f", "g", "h", "j", "k", "e", "r", "t", "y", "u", "i", "o">>

NOTE_KEYS == [k \in {NoteKeyNames[i] : i \in 1..Len(NoteKeyNames)} |->
                 (CHOOSE i \in 1..Len(NoteKeyNames) : NoteKeyNames[i] = k) - 1]

EFFECT_KEYS == ("c" :> "vibrato") @@ ("v" :> "reverb_max") @@
               ("z" :> "filter_close") @@ ("x" :> "distort")

ChordModeNames == <<"Triad (1-3-5)", "Single", "Cluster (1-2)", "Open 5th (1-5)",
                    "Sus4 (1-4-5)", "Octaves">>

CHORD_MODES == ("Single" :> <<0>>) @@ ("Octaves" :> <<0, 7>>) @@
               ("Triad (1-3-5)" :> <<0, 2, 4>>) @@ ("Sus4 (1-4-5)" :> <<0, 3, 4>>) @@
               ("Open 5th (1-5)" :> <<0, 4>>) @@ ("Cluster (1-2)" :> <<0, 1>>)

DEFAULT_THEME == [name |-> "Deep Space", scale |-> "pentatonic_minor",
                  synthConfig |-> [release |-> 800]]

NoUser == [id |-> ""]

ThemeChoices ==
    {[name |-> "Fallback Neon", scale |-> "pentatonic_minor", synthConfig |-> [release |-> 1500]],
     [name |-> "Generated", scale |-> "major", synthConfig |-> [release |-> 300]]}

ScaleChoices == {"dorian"}

EffectNames == <<"vibrato", "reverb_max", "filter_close", "distort">>

Effects == {EffectNames[i] : i \in 1..NumEffects}

RemoteIds == {"A"}

PeerId == CHOOSE p \in RemoteIds : TRUE

EngUsers == {"L", "A"}

LocalId == "L"

-----------------------------------------------------------------------------
(* Helpers on arrays *)

Includes(s, x) == \E i \in 1..Len(s) : s[i] = x

RECURSIVE Filter(_, _)
Filter(s, x) ==
    IF s = <<>> THEN <<>>
    ELSE IF Head(s) = x THEN Filter(Tail(s), x)
         ELSE <<Head(s)>> \o Filter(Tail(s), x)

Range(s) == {s[i] : i \in 1..Len(s)}

Without(f, k) == [x \in DOMAIN f \ {k} |-> f[x]]

Values(f) == {f[k] : k \in DOMAIN f}

-----------------------------------------------------------------------------
(* AudioEngine and Voice.  An engine value e carries ctx, activeVoices,    *)
(* voices and the log of calls made so far in the running handler.         *)

VoiceKey(userId, noteIndex) == <<userId, noteIndex>>

NewVoiceId(e, id) ==
    <<id[1], id[2],
      CHOOSE n \in 1..(Cardinality(DOMAIN e.voices) + 1) :
          /\ <<id[1], id[2], n>> \notin DOMAIN e.voices
          /\ \A m \in 1..(n - 1) : <<id[1], id[2], m>> \in DOMAIN e.voices>>

(* init builds the audio context, master gain, compressor and reverb      *)
(* together; ctx numbers the bus built.                                   *)
EngineInitRebuilds(e) == [e EXCEPT !.ctx = @ + 1]

EngineInit(e) == IF e.ctx # 0 THEN e ELSE [e EXCEPT !.ctx = @ + 1]

VoiceReleaseCurrentTheme(e, v) ==
    [e EXCEPT !.voices = [e.voices EXCEPT ![v] = [@ EXCEPT !.state = "releasing"]],
              !.timers = Append(@, [voice |-> v, delay |-> theme.synthConfig.release + 200]),
              !.calls = Append(@, [op |-> "release", voice |-> v,
                                   stop |-> theme.synthConfig.release + 100])]

VoiceReleaseStopsLate(e, v) ==
    [e EXCEPT !.voices = [e.voices EXCEPT ![v] = [@ EXCEPT !.state = "releasing"]],
              !.timers = Append(@, [voice |-> v, delay |-> e.voices[v].config.release + 200]),
              !.calls = Append(@, [op |-> "release", voice |-> v,
                                   stop |-> e.voices[v].config.release + 300])]

VoiceRelease(e, v) ==
    [e EXCEPT !.voices = [e.voices EXCEPT ![v] = [@ EXCEPT !.state = "releasing"]],
              !.timers = Append(@, [voice |-> v, delay |-> e.voices[v].config.release + 200]),
              !.calls = Append(@, [op |-> "release", voice |-> v,
                                   stop |-> e.voices[v].config.release + 100])]

EngineNoteOffKeepsEntry(e, userId, noteIndex) ==
    LET id == VoiceKey(userId, noteIndex)
        e0 == [e EXCEPT !.calls = Append(@, [op |-> "noteOff", userId |-> userId,
                                             noteIndex |-> noteIndex])]
    IN IF id \in DOMAIN e0.activeVoices
       THEN VoiceRelease(e0, e0.activeVoices[id])
       ELSE e0

EngineNoteOffAgain(e, userId, noteIndex) ==
    LET id == VoiceKey(userId, noteIndex)
        e0 == [e EXCEPT !.calls = Append(@, [op |-> "noteOff", userId |-> userId,
                                             noteIndex |-> noteIndex])]
        old == {v \in DOMAIN e0.voices : v[1] = userId /\ v[2] = noteIndex
                                          /\ e0.voices[v].state = "releasing"}
    IN IF id \in DOMAIN e0.activeVoices
       THEN LET r == VoiceRelease(e0, e0.activeVoices[id]) IN
            [r EXCEPT !.activeVoices = Without(r.activeVoices, id)]
       ELSE IF old # {} THEN VoiceRelease(e0, CHOOSE v \in old : TRUE)
       ELSE e0

EngineNoteOff(e, userId, noteIndex) ==
    LET id == VoiceKey(userId, noteIndex)
        e0 == [e EXCEPT !.calls = Append(@, [op |-> "noteOff", userId |-> userId,
                                             noteIndex |-> noteIndex])]
    IN IF id \in DOMAIN e0.activeVoices
       THEN LET r == VoiceRelease(e0, e0.activeVoices[id]) IN
            [r EXCEPT !.activeVoices = Without(r.activeVoices, id)]
       ELSE e0

EngineNoteOnOverwrites(e, userId, noteIndex, scaleName, config, activeEffects) ==
    LET id == VoiceKey(userId, noteIndex)
        e1 == EngineInit(e)
        v  == NewVoiceId(e1, id)
    IN [e1 EXCEPT
          !.voices = (v :> [state |-> "running", config |-> config]) @@ @,
          !.activeVoices = (id :> v) @@ @,
          !.calls = Append(@, [op |-> "noteOn", userId |-> userId,
                               noteIndex |-> noteIndex, scale |-> scaleName,
                               config |-> config, effects |-> activeEffects,
                               voice |-> v])]

EngineNoteOn(e, userId, noteIndex, scaleName, config, activeEffects) ==
    LET id == VoiceKey(userId, noteIndex)
        e1 == EngineInit(e)
        e2 == IF id \in DOMAIN e1.activeVoices
              THEN EngineNoteOff(e1, userId, noteIndex)
              ELSE e1
        v  == NewVoiceId(e2, id)
    IN [e2 EXCEPT
          !.voices = (v :> [state |-> "running", config |-> config]) @@ @,
          !.activeVoices = (id :> v) @@ @,
          !.calls = Append(@, [op |-> "noteOn", userId |-> userId,
                               noteIndex |-> noteIndex, scale |-> scaleName,
                               config |-> config, effects |-> activeEffects,
                               voice |-> v])]

(* Registry keys are the strings `${userId}_${noteIndex}`.  Participant    *)
(* ids are strings of base-36 digits; the remote id is taken to extend    *)
(* the local one, so that the separator decides the prefix test.          *)
IdString == ("L" :> <<"l">>) @@ ("A" :> <<"l", "a">>) @@ ("B" :> <<"b">>)

KeyString(id) == IdString[id[1]] \o <<"_", id[2]>>

StartsWith(str, prefix) ==
    /\ Len(prefix) <= Len(str)
    /\ SubSeq(str, 1, Len(prefix)) = prefix

EngineUpdateUserEffectsBarePrefix(e, userId, activeEffects) ==
    IF e.ctx = 0 THEN e
    ELSE [e EXCEPT !.calls = Append(@, [op |-> "updateUserEffects", userId |-> userId,
                                        effects |-> activeEffects,
                                        voices |-> {e.activeVoices[k] :
                                                     k \in {x \in DOMAIN e.activeVoices :
                                                            StartsWith(KeyString(x),
                                                                       IdString[userId])}}])]

EngineUpdateUserEffects(e, userId, activeEffects) ==
    IF e.ctx = 0 THEN e
    ELSE [e EXCEPT !.calls = Append(@, [op |-> "updateUserEffects", userId |-> userId,
                                        effects |-> activeEffects,
                                        voices |-> {e.activeVoices[k] :
                                                     k \in {x \in DOMAIN e.activeVoices :
                                                            StartsWith(KeyString(x),
                                                                       IdString[userId] \o <<"_">>)}}])]

(* getFreq.  The returned frequency is base * 2^(semitones / 12); it is    *)
(* kept as the pair (base, semitones).  scale[degree] of an index outside  *)
(* the array is undefined and the arithmetic on it gives NaN.              *)
SCALES == ("pentatonic_major" :> <<0, 2, 4, 7, 9>>) @@
          ("pentatonic_minor" :> <<0, 3, 5, 7, 10>>) @@
          ("major" :> <<0, 2, 4, 5, 7, 9, 11>>) @@
          ("minor" :> <<0, 2, 3, 5, 7, 8, 10>>) @@
          ("harmonic_minor" :> <<0, 2, 3, 5, 7, 8, 11>>) @@
          ("dorian" :> <<0, 2, 3, 5, 7, 9, 10>>) @@
          ("phrygian" :> <<0, 1, 3, 5, 7, 8, 10>>) @@
          ("lydian" :> <<0, 2, 4, 6, 7, 9, 11>>) @@
          ("mixolydian" :> <<0, 2, 4, 5, 7, 9, 10>>) @@
          ("locrian" :> <<0, 1, 3, 5, 6, 8, 10>>) @@
          ("whole_tone" :> <<0, 2, 4, 6, 8, 10>>) @@
          ("chromatic" :> <<0, 1, 2, 3, 4, 5, 6, 7, 8, 9, 10, 11>>) @@
          ("pelog" :> <<0, 1, 3, 7, 8>>) @@
          ("hirajoshi" :> <<0, 2, 3, 7, 8>>)

(* JavaScript %: the remainder takes the sign of the dividend *)
JsRem(a, b) == IF a >= 0 THEN a % b ELSE 0 - ((0 - a) % b)

(* Math.floor(a / b) for b > 0 *)
MathFloorDiv(a, b) == a \div b

ScaleOrMajor(scaleName) ==
    IF scaleName \in DOMAIN SCALES THEN SCALES[scaleName] ELSE SCALES["major"]

ScaleOrDefault(scaleName) ==
    IF scaleName \in DOMAIN SCALES THEN SCALES[scaleName] ELSE SCALES["pentatonic_major"]

GetFreq(base, scaleName, index) ==
    LET scale  == ScaleOrDefault(scaleName)
        oct    == MathFloorDiv(index, Len(scale))
        degree == JsRem(index, Len(scale))
    IN IF degree \in 0..(Len(scale) - 1)
       THEN [nan |-> FALSE, base |-> base, semitones |-> (oct * 12) + scale[degree + 1]]
       ELSE [nan |-> TRUE, base |-> base, semitones |-> 0]

Engine == [ctx |-> ctx, activeVoices |-> activeVoices, voices |-> voices,
           timers |-> timers, calls |-> <<>>]

SetEngine(e) ==
    /\ ctx' = e.ctx
    /\ activeVoices' = e.activeVoices
    /\ voices' = e.voices
    /\ timers' = e.timers

Pending == {timers[i].voice : i \in 1..Len(timers)}

NoOut == [op |-> "", input |-> <<>>, sent |-> <<>>, delivered |-> <<>>, calls |-> <<>>,
          rejected |-> {}]


-----------------------------------------------------------------------------
(* Transport (Firebase Realtime Database): empty arrays are not stored     *)

StripEmpty(r) ==
    [f \in {g \in DOMAIN r : ~(g \in {"activeNotes", "activeEffects"} /\ r[g] = <<>>)} |-> r[f]]

Transport(msg) ==
    IF msg.type = "JOIN" THEN [msg EXCEPT !.payload = StripEmpty(@)] ELSE msg

-----------------------------------------------------------------------------
(* App.handleRemoteMessage                                                 *)

SanitizeUnnamed(rawUser) ==
    [id |-> IF "id" \in DOMAIN rawUser /\ rawUser.id # "" THEN rawUser.id ELSE "unknown",
     name |-> IF "name" \in DOMAIN rawUser THEN rawUser.name ELSE "",
     colorIndex |-> IF "colorIndex" \in DOMAIN rawUser THEN rawUser.colorIndex ELSE 0,
     activeNotes |-> IF "activeNotes" \in DOMAIN rawUser THEN rawUser.activeNotes ELSE <<>>,
     activeEffects |-> IF "activeEffects" \in DOMAIN rawUser THEN rawUser.activeEffects ELSE <<>>]

Sanitize(rawUser) ==
    [id |-> IF "id" \in DOMAIN rawUser /\ rawUser.id # "" THEN rawUser.id ELSE "unknown",
     name |-> IF "name" \in DOMAIN rawUser /\ rawUser.name # "" THEN rawUser.name ELSE "Anonymous",
     colorIndex |-> IF "colorIndex" \in DOMAIN rawUser THEN rawUser.colorIndex ELSE 0,
     activeNotes |-> IF "activeNotes" \in DOMAIN rawUser THEN rawUser.activeNotes ELSE <<>>,
     activeEffects |-> IF "activeEffects" \in DOMAIN rawUser THEN rawUser.activeEffects ELSE <<>>]

Find(users, id) == {i \in 1..Len(users) : users[i].id = id}

JoinUpdaterAlways(prev, msg) == Append(prev, Sanitize(msg.payload))

JoinUpdater(prev, msg) ==
    IF Find(prev, msg.senderId) # {} THEN prev
    ELSE Append(prev, Sanitize(msg.payload))

RECURSIVE FilterUsers(_, _)
FilterUsers(users, id) ==
    IF users = <<>> THEN <<>>
    ELSE IF Head(users).id = id THEN FilterUsers(Tail(users), id)
         ELSE <<Head(users)>> \o FilterUsers(Tail(users), id)

LeaveUpdaterKeeps(prev, msg) == prev

LeaveUpdater(prev, msg) == FilterUsers(prev, msg.senderId)

NoteOnUpdaterAppends(prev, msg) ==
    [i \in 1..Len(prev) |->
        IF prev[i].id = msg.senderId
        THEN [prev[i] EXCEPT !.activeNotes = Append(@, msg.payload.noteIndex)]
        ELSE prev[i]]

NoteOnUpdater(prev, msg) ==
    [i \in 1..Len(prev) |->
        IF prev[i].id = msg.senderId /\ ~Includes(prev[i].activeNotes, msg.payload.noteIndex)
        THEN [prev[i] EXCEPT !.activeNotes = Append(@, msg.payload.noteIndex)]
        ELSE prev[i]]

NoteOffUpdaterKeeps(prev, msg) == prev

NoteOffUpdater(prev, msg) ==
    [i \in 1..Len(prev) |->
        IF prev[i].id = msg.senderId
        THEN [prev[i] EXCEPT !.activeNotes = Filter(@, msg.payload.noteIndex)]
        ELSE prev[i]]

EffectsAfterChange(currentEffects, effect, active) ==
    IF active THEN Append(currentEffects, effect)
    ELSE Filter(currentEffects, effect)

EffectChangeUpdaterEveryone(prev, msg) ==
    [i \in 1..Len(prev) |->
        [prev[i] EXCEPT !.activeEffects =
            EffectsAfterChange(@, msg.payload.effect, msg.payload.active)]]

EffectChangeUpdater(prev, msg) ==
    [i \in 1..Len(prev) |->
        IF prev[i].id = msg.senderId
        THEN [prev[i] EXCEPT !.activeEffects =
                 EffectsAfterChange(@, msg.payload.effect, msg.payload.active)]
        ELSE prev[i]]

RosterAfter(prev, msg) ==
    CASE msg.type = "JOIN" -> JoinUpdater(prev, msg)
      [] msg.type = "LEAVE" -> LeaveUpdater(prev, msg)
      [] msg.type = "NOTE_ON" -> NoteOnUpdater(prev, msg)
      [] msg.type = "NOTE_OFF" -> NoteOffUpdater(prev, msg)
      [] msg.type = "EFFECT_CHANGE" -> EffectChangeUpdater(prev, msg)
      [] OTHER -> prev

(* The callback registered by comms.connect is the handleRemoteMessage of  *)
(* the render in which joinRoom ran; it closes over that render's values.  *)
capturedRemoteUsers == <<>>

capturedTheme == DEFAULT_THEME

capturedEffectiveScale == DEFAULT_THEME.scale

(* updatedEffects is assigned inside the state updater; it is read right   *)
(* after setRemoteUsers, when the updater has run (eager) or not yet.      *)
UpdatedEffects(prev, msg, eager) ==
    LET hit == Find(prev, msg.senderId) IN
    IF eager /\ hit # {}
    THEN LET i == CHOOSE j \in hit : \A k \in hit : j >= k IN
         EffectsAfterChange(prev[i].activeEffects, msg.payload.effect, msg.payload.active)
    ELSE <<>>

NeverOwnMessage(localId, msg) == FALSE

IsOwnMessage(localId, msg) == localId # "" /\ msg.senderId = localId

HandleRemoteMessage(st, msg, eager) ==
    IF IsOwnMessage(st.localId, msg) THEN st
    ELSE CASE msg.type \in {"JOIN", "LEAVE"} ->
                [st EXCEPT !.remoteUsers = RosterAfter(@, msg)]
           [] msg.type = "NOTE_ON" ->
                LET sender == Find(capturedRemoteUsers, msg.senderId)
                    senderEffects == IF sender # {}
                                     THEN capturedRemoteUsers[CHOOSE i \in sender : TRUE].activeEffects
                                     ELSE <<>>
                IN [st EXCEPT !.remoteUsers = RosterAfter(@, msg),
                              !.e = EngineNoteOn(@, msg.senderId, msg.payload.noteIndex,
                                                 capturedEffectiveScale,
                                                 capturedTheme.synthConfig, senderEffects)]
           [] msg.type = "NOTE_OFF" ->
                [st EXCEPT !.remoteUsers = RosterAfter(@, msg),
                           !.e = EngineNoteOff(@, msg.senderId, msg.payload.noteIndex)]
           [] msg.type = "EFFECT_CHANGE" ->
                [st EXCEPT !.remoteUsers = RosterAfter(@, msg),
                           !.e = EngineUpdateUserEffects(@, msg.senderId,
                                     UpdatedEffects(st.remoteUsers, msg, eager))]
           [] msg.type = "SYNC_THEME" ->
                [st EXCEPT !.theme = msg.payload, !.overrideScale = ""]
           [] msg.type = "SYNC_SCALE" ->
                [st EXCEPT !.overrideScale = msg.payload]
           [] OTHER -> st

RemoteState == [localId |-> localUser.id, remoteUsers |-> remoteUsers, theme |-> theme,
                overrideScale |-> overrideScale, e |-> Engine]

Callback(input, msg, eager, op) ==
    LET st == HandleRemoteMessage(RemoteState, msg, eager) IN
    /\ remoteUsers' = st.remoteUsers
    /\ theme' = st.theme
    /\ overrideScale' = st.overrideScale
    /\ SetEngine(st.e)
    /\ out' = [NoOut EXCEPT !.op = op, !.input = <<input>>, !.delivered = <<msg>>,
                            !.calls = st.e.calls]

-----------------------------------------------------------------------------
(* Initial state: the module singletons are constructed, App is mounted    *)
(* and shows the lobby.                                                    *)

Init ==
    /\ localUser = NoUser
    /\ remoteUsers = <<>>
    /\ theme = DEFAULT_THEME
    /\ overrideScale = ""
    /\ activeChordMode = "Single"
    /\ ctx = 0
    /\ activeVoices = <<>>
    /\ voices = <<>>
    /\ timers = <<>>
    /\ startTime = 0
    /\ keysHeld = <<>>
    /\ joinTimer = FALSE
    /\ peerRemoteUsers = <<>>
    /\ eventsRef = <<>>
    /\ usersRef = {}
    /\ inbox = <<>>
    /\ peer = [theme |-> DEFAULT_THEME, overrideScale |-> "", cursor |-> 0]
    /\ out = NoOut

-----------------------------------------------------------------------------
(* Messages this client emits, and the roster a peer builds from them      *)

NoteOnMsg(noteIndex) ==
    [type |-> "NOTE_ON", senderId |-> LocalId, payload |-> [noteIndex |-> noteIndex]]

NoteOffMsg(noteIndex) ==
    [type |-> "NOTE_OFF", senderId |-> LocalId, payload |-> [noteIndex |-> noteIndex]]

EffectChangeMsg(effect, active) ==
    [type |-> "EFFECT_CHANGE", senderId |-> LocalId,
     payload |-> [effect |-> effect, active |-> active]]

PresenceJoin(rawUser) ==
    LET user == Sanitize(rawUser) IN
    [type |-> "JOIN", payload |-> user, senderId |-> user.id]

RECURSIVE PeerAfter(_, _)
PeerAfter(prev, msgs) ==
    IF msgs = <<>> THEN prev
    ELSE LET m == Transport(Head(msgs))
             p1 == IF m.type = "JOIN" THEN RosterAfter(prev, PresenceJoin(m.payload)) ELSE prev
         IN PeerAfter(RosterAfter(p1, m), Tail(msgs))

-----------------------------------------------------------------------------
(* App.joinRoom and the local key handlers                                 *)

ConnectTime == 2

ColorIndexes == {2}

NewUser(c) == [id |-> LocalId, name |-> "n", colorIndex |-> c,
               activeNotes |-> <<>>, activeEffects |-> <<>>]

RecordOf(id) == StripEmpty([id |-> id, name |-> "n", colorIndex |-> 2,
                            activeNotes |-> <<>>, activeEffects |-> <<>>])

RECURSIVE SeqOfSet(_)
SeqOfSet(S) ==
    IF S = {} THEN <<>>
    ELSE LET x == CHOOSE y \in S : TRUE IN <<x>> \o SeqOfSet(S \ {x})

EventNote(data) == [kind |-> "event", data |-> data]

AddedNote(rawUser) == [kind |-> "added", data |-> rawUser]

RemovedNote(userId) == [kind |-> "removed", data |-> userId]

(* What the listeners attached by connect() are first notified of: every   *)
(* child the events list already has, then every presence record.          *)
Backlog ==
    [i \in 1..Len(eventsRef) |-> EventNote(eventsRef[i])] \o
    [i \in 1..Cardinality(usersRef) |-> AddedNote(RecordOf(SeqOfSet(usersRef)[i]))]

JoinRoom ==
    /\ localUser = NoUser
    /\ \E c \in ColorIndexes : localUser' = NewUser(c)
    /\ ctx' = EngineInit(Engine).ctx
    /\ startTime' = ConnectTime
    /\ joinTimer' = TRUE
    /\ inbox' = Backlog
    /\ out' = [NoOut EXCEPT !.op = "joinRoom"]
    /\ UNCHANGED <<remoteUsers, theme, overrideScale, activeChordMode, activeVoices,
                   voices, timers, keysHeld, peerRemoteUsers, eventsRef, usersRef, peer>>

SendJoin ==
    /\ joinTimer
    /\ joinTimer' = FALSE
    /\ LET msg == [type |-> "JOIN", senderId |-> LocalId,
                   payload |-> NewUser(localUser.colorIndex)]
       IN /\ out' = [NoOut EXCEPT !.op = "sendJoin", !.sent = <<msg>>]
          /\ peerRemoteUsers' = PeerAfter(peerRemoteUsers, <<msg>>)
          /\ usersRef' = usersRef \cup {LocalId}
          /\ eventsRef' = Append(eventsRef, Transport(msg))
          /\ inbox' = inbox \o <<AddedNote(StripEmpty(msg.payload)), EventNote(Transport(msg))>>
    /\ UNCHANGED <<localUser, remoteUsers, theme, overrideScale, activeChordMode, ctx,
                   activeVoices, voices, timers, startTime, keysHeld, peer>>

NoteKeys == {"s", "d"}

EffectKeyNames == <<"c", "v", "z", "x">>

EffectKeys == {EffectKeyNames[i] : i \in 1..NumEffectKeys}

ChordModes == {ChordModeNames[i] : i \in 1..NumChordModes}

Intervals(mode) == IF mode \in DOMAIN CHORD_MODES THEN CHORD_MODES[mode] ELSE <<0>>

EffectiveScale == IF overrideScale # "" THEN overrideScale ELSE theme.scale

AddNoteUnchecked(currentNotes, noteIndex) ==
    IF Includes(currentNotes, noteIndex) THEN currentNotes
    ELSE Append(currentNotes, noteIndex)

AddNote(currentNotes, noteIndex) ==
    IF Len(currentNotes) >= MAX_POLYPHONY THEN currentNotes
    ELSE IF Includes(currentNotes, noteIndex) THEN currentNotes
    ELSE Append(currentNotes, noteIndex)

RECURSIVE NoteKeyDownEach(_, _, _, _)
NoteKeyDownEach(baseIndex, intervals, i, acc) ==
    IF i > Len(intervals) THEN acc
    ELSE LET noteIndex == baseIndex + intervals[i] IN
         NoteKeyDownEach(baseIndex, intervals, i + 1,
            [acc EXCEPT
               !.notes = AddNote(@, noteIndex),
               !.rejected = IF Len(acc.notes) >= MAX_POLYPHONY THEN @ \cup {noteIndex} ELSE @,
               !.sounded = @ \cup {noteIndex},
               !.e = EngineNoteOn(@, localUser.id, noteIndex, EffectiveScale,
                                  theme.synthConfig, localUser.activeEffects),
               !.sent = Append(@, NoteOnMsg(noteIndex))])

KeyAcc == [notes |-> localUser.activeNotes, effects |-> localUser.activeEffects,
           e |-> Engine, sent |-> <<>>, rejected |-> {}, sounded |-> {}]

NoteKeyDown(key, acc) ==
    IF key \notin DOMAIN NOTE_KEYS THEN acc
    ELSE IF Len(localUser.activeNotes) >= MAX_POLYPHONY
         THEN [acc EXCEPT !.rejected = {NOTE_KEYS[key] + Intervals(activeChordMode)[i] :
                                          i \in 1..Len(Intervals(activeChordMode))}]
         ELSE NoteKeyDownEach(NOTE_KEYS[key], Intervals(activeChordMode), 1, acc)

EffectKeyDownHoldOnly(key, acc) ==
    IF key \notin DOMAIN EFFECT_KEYS THEN acc
    ELSE LET effect == EFFECT_KEYS[key]
             isActive == Includes(localUser.activeEffects, effect)
         IN IF ~isActive
            THEN LET newEffects == Append(localUser.activeEffects, effect)
                 IN [acc EXCEPT !.effects = newEffects,
                                !.sent = Append(@, EffectChangeMsg(effect, TRUE)),
                                !.e = EngineUpdateUserEffects(@, localUser.id, newEffects)]
            ELSE [acc EXCEPT !.e = EngineUpdateUserEffects(@, localUser.id,
                                                           localUser.activeEffects)]

EffectKeyDown(key, acc) ==
    IF key \notin DOMAIN EFFECT_KEYS THEN acc
    ELSE LET effect == EFFECT_KEYS[key]
             isActive == Includes(localUser.activeEffects, effect)
         IN IF effect = "reverb_max"
            THEN LET newEffects == IF ~isActive THEN Append(localUser.activeEffects, effect)
                                   ELSE Filter(localUser.activeEffects, effect)
                 IN [acc EXCEPT !.effects = newEffects,
                                !.sent = Append(@, EffectChangeMsg(effect, ~isActive)),
                                !.e = EngineUpdateUserEffects(@, localUser.id, newEffects)]
            ELSE IF ~isActive
                 THEN LET newEffects == Append(localUser.activeEffects, effect)
                      IN [acc EXCEPT !.effects = newEffects,
                                     !.sent = Append(@, EffectChangeMsg(effect, TRUE)),
                                     !.e = EngineUpdateUserEffects(@, localUser.id, newEffects)]
                 ELSE [acc EXCEPT !.e = EngineUpdateUserEffects(@, localUser.id,
                                                                localUser.activeEffects)]

Apply(acc, op) ==
    /\ localUser' = [localUser EXCEPT !.activeNotes = acc.notes, !.activeEffects = acc.effects]
    /\ SetEngine(acc.e)
    /\ out' = [NoOut EXCEPT !.op = op, !.sent = acc.sent, !.calls = acc.e.calls,
                            !.rejected = acc.rejected]
    /\ peerRemoteUsers' = PeerAfter(peerRemoteUsers, acc.sent)

TagNames == {"BODY"}

HandleKeyDown(key, tagName) ==
    /\ localUser # NoUser
    /\ IF key \in DOMAIN keysHeld \/ tagName \in {"INPUT", "SELECT"}
       THEN /\ Apply(KeyAcc, "keydown")
            /\ keysHeld' = IF key \in DOMAIN keysHeld THEN keysHeld ELSE (key :> {}) @@ keysHeld
       ELSE LET acc == EffectKeyDown(key, NoteKeyDown(key, KeyAcc))
            IN /\ Apply(acc, "keydown")
               /\ keysHeld' = (key :> acc.sounded) @@ keysHeld
    /\ UNCHANGED <<remoteUsers, theme, overrideScale, activeChordMode, startTime, joinTimer>>
    /\ UNCHANGED roomVars

RECURSIVE NoteKeyUpEach(_, _, _, _)
NoteKeyUpEach(baseIndex, intervals, i, acc) ==
    IF i > Len(intervals) THEN acc
    ELSE LET noteIndex == baseIndex + intervals[i] IN
         NoteKeyUpEach(baseIndex, intervals, i + 1,
            [acc EXCEPT
               !.notes = Filter(@, noteIndex),
               !.e = EngineNoteOff(@, localUser.id, noteIndex),
               !.sent = Append(@, NoteOffMsg(noteIndex))])

NoteKeyUp(key, acc) ==
    IF key \notin DOMAIN NOTE_KEYS THEN acc
    ELSE NoteKeyUpEach(NOTE_KEYS[key], Intervals(activeChordMode), 1, acc)

EffectKeyUpSilent(key, acc) ==
    IF key \notin DOMAIN EFFECT_KEYS THEN acc
    ELSE LET effect == EFFECT_KEYS[key] IN
         IF effect = "reverb_max" THEN acc
         ELSE LET newEffects == Filter(localUser.activeEffects, effect)
              IN [acc EXCEPT !.effects = newEffects,
                             !.e = EngineUpdateUserEffects(@, localUser.id, newEffects)]

EffectKeyUp(key, acc) ==
    IF key \notin DOMAIN EFFECT_KEYS THEN acc
    ELSE LET effect == EFFECT_KEYS[key] IN
         IF effect = "reverb_max" THEN acc
         ELSE LET newEffects == Filter(localUser.activeEffects, effect)
              IN [acc EXCEPT !.effects = newEffects,
                             !.e = EngineUpdateUserEffects(@, localUser.id, newEffects),
                             !.sent = Append(@, EffectChangeMsg(effect, FALSE))]

HandleKeyUp(key) ==
    /\ localUser # NoUser
    /\ key \in DOMAIN keysHeld
    /\ Apply(EffectKeyUp(key, NoteKeyUp(key, KeyAcc)), "keyup")
    /\ keysHeld' = Without(keysHeld, key)
    /\ UNCHANGED <<remoteUsers, theme, overrideScale, activeChordMode, startTime, joinTimer>>
    /\ UNCHANGED roomVars

SetActiveChordMode(mode) ==
    /\ localUser # NoUser
    /\ activeChordMode' = mode
    /\ out' = [NoOut EXCEPT !.op = "setActiveChordMode"]
    /\ UNCHANGED <<localUser, remoteUsers, theme, overrideScale, ctx, activeVoices, voices,
                   timers, startTime, keysHeld, joinTimer, peerRemoteUsers>>
    /\ UNCHANGED roomVars

SyncThemeMsg(senderId, newTheme) ==
    [type |-> "SYNC_THEME", senderId |-> senderId, payload |-> newTheme, timestamp |-> MaxTime]

SyncScaleMsg(senderId, newScale) ==
    [type |-> "SYNC_SCALE", senderId |-> senderId, payload |-> newScale, timestamp |-> MaxTime]

HandleThemeChange(newTheme) ==
    /\ localUser # NoUser
    /\ theme' = newTheme
    /\ overrideScale' = ""
    /\ LET msg == SyncThemeMsg(localUser.id, newTheme)
       IN /\ eventsRef' = Append(eventsRef, msg)
          /\ inbox' = Append(inbox, EventNote(msg))
          /\ out' = [NoOut EXCEPT !.op = "themeChange", !.sent = <<msg>>]
    /\ UNCHANGED <<localUser, remoteUsers, activeChordMode, engineVars, startTime, keysHeld,
                   joinTimer, peerRemoteUsers, usersRef, peer>>

HandleScaleChange(newScale) ==
    /\ localUser # NoUser
    /\ overrideScale' = newScale
    /\ LET msg == SyncScaleMsg(localUser.id, newScale)
       IN /\ eventsRef' = Append(eventsRef, msg)
          /\ inbox' = Append(inbox, EventNote(msg))
          /\ out' = [NoOut EXCEPT !.op = "scaleChange", !.sent = <<msg>>]
    /\ UNCHANGED <<localUser, remoteUsers, theme, activeChordMode, engineVars, startTime,
                   keysHeld, joinTimer, peerRemoteUsers, usersRef, peer>>

-----------------------------------------------------------------------------
(* CommsService.connect: the three transport listeners                     *)

PassesUnfiltered(data, start) == TRUE

PassesStrictlyLater(data, start) ==
    ~(/\ data.type \in {"NOTE_ON", "NOTE_OFF"}
      /\ "timestamp" \in DOMAIN data
      /\ data.timestamp # 0
      /\ (data.timestamp < start \/ (data.type = "NOTE_OFF" /\ data.timestamp = start)))

PassesReplayFilter(data, start) ==
    ~(/\ data.type \in {"NOTE_ON", "NOTE_OFF"}
      /\ "timestamp" \in DOMAIN data
      /\ data.timestamp # 0
      /\ data.timestamp < start)

OnEventAdded(data, eager) ==
    /\ startTime # 0
    /\ IF PassesReplayFilter(data, startTime)
       THEN Callback(data, data, eager, "event")
       ELSE /\ out' = [NoOut EXCEPT !.op = "event", !.input = <<data>>]
            /\ UNCHANGED <<remoteUsers, theme, overrideScale, ctx, activeVoices, voices, timers>>
    /\ UNCHANGED <<localUser, activeChordMode, startTime, keysHeld, joinTimer, peerRemoteUsers>>

OnPresenceAdded(rawUser) ==
    /\ startTime # 0
    /\ Callback(rawUser, PresenceJoin(rawUser), TRUE, "presenceAdded")
    /\ UNCHANGED <<localUser, activeChordMode, startTime, keysHeld, joinTimer, peerRemoteUsers>>

OnPresenceRemoved(userId) ==
    /\ startTime # 0
    /\ IF userId # ""
       THEN Callback(userId, [type |-> "LEAVE", payload |-> "null", senderId |-> userId],
                     TRUE, "presenceRemoved")
       ELSE /\ out' = [NoOut EXCEPT !.op = "presenceRemoved", !.input = <<userId>>]
            /\ UNCHANGED <<remoteUsers, theme, overrideScale, ctx, activeVoices, voices, timers>>
    /\ UNCHANGED <<localUser, activeChordMode, startTime, keysHeld, joinTimer, peerRemoteUsers>>

-----------------------------------------------------------------------------
(* Direct calls of the AudioEngine API and the disposal timer              *)

CallInit ==
    /\ SetEngine(EngineInit(Engine))
    /\ out' = [NoOut EXCEPT !.op = "init"]
    /\ UNCHANGED <<appVars, roomVars>>

CallNoteOn(userId, noteIndex) ==
    /\ Len(timers) <= MaxPending
    /\ LET e == EngineNoteOn(Engine, userId, noteIndex, theme.scale, theme.synthConfig, <<>>)
       IN /\ SetEngine(e)
          /\ out' = [NoOut EXCEPT !.op = "noteOn", !.calls = e.calls]
    /\ UNCHANGED <<appVars, roomVars>>

CallNoteOff(userId, noteIndex) ==
    /\ Len(timers) <= MaxPending
    /\ LET e == EngineNoteOff(Engine, userId, noteIndex)
       IN /\ SetEngine(e)
          /\ out' = [NoOut EXCEPT !.op = "noteOff", !.calls = e.calls]
    /\ UNCHANGED <<appVars, roomVars>>

CallUpdateUserEffects(userId, effect) ==
    /\ LET e == EngineUpdateUserEffects(Engine, userId, <<effect>>)
       IN /\ SetEngine(e)
          /\ out' = [NoOut EXCEPT !.op = "updateUserEffects", !.calls = e.calls]
    /\ UNCHANGED <<appVars, roomVars>>

RemoveAt(s, i) == [j \in 1..(Len(s) - 1) |-> IF j < i THEN s[j] ELSE s[j + 1]]

(* A timer callback that would look its Voice up by registry key           *)
DisposeTimerByKey(i) ==
    /\ i \in 1..Len(timers)
    /\ \A j \in 1..(i - 1) : timers[j].delay > timers[i].delay
    /\ LET old  == timers[i].voice
           id   == VoiceKey(old[1], old[2])
           v    == IF id \in DOMAIN activeVoices THEN activeVoices[id] ELSE old
           rest == RemoveAt(timers, i)
       IN /\ timers' = rest
          /\ voices' = [voices EXCEPT ![v] = [@ EXCEPT !.state = "disposed"]]
          /\ out' = [NoOut EXCEPT !.op = "dispose",
                                  !.calls = <<[op |-> "dispose", voice |-> old]>>]
    /\ UNCHANGED <<ctx, activeVoices>>
    /\ UNCHANGED <<appVars, roomVars>>

(* A timeout fires once every timeout scheduled before it with a delay    *)
(* that is not longer has fired.  The callback disconnects the nodes; the *)
(* Voice is then garbage unless the registry or a timer still holds it.   *)
DisposeTimer(i) ==
    /\ i \in 1..Len(timers)
    /\ \A j \in 1..(i - 1) : timers[j].delay > timers[i].delay
    /\ LET v    == timers[i].voice
           rest == RemoveAt(timers, i)
           vs   == [voices EXCEPT ![v] = [@ EXCEPT !.state = "disposed"]]
       IN /\ timers' = rest
          /\ voices' = IF v \in Values(activeVoices) \/ \E j \in 1..Len(rest) : rest[j].voice = v
                       THEN vs
                       ELSE Without(vs, v)
          /\ out' = [NoOut EXCEPT !.op = "dispose",
                                  !.calls = <<[op |-> "dispose", voice |-> v]>>]
    /\ UNCHANGED <<ctx, activeVoices>>
    /\ UNCHANGED <<appVars, roomVars>>

CallGetFreq(base, scaleName, index) ==
    /\ out' = [NoOut EXCEPT !.op = "getFreq", !.input = <<base, scaleName, index>>,
                            !.calls = <<GetFreq(base, scaleName, index)>>]
    /\ UNCHANGED <<appVars, roomVars, engineVars>>

EngineNext ==
    \/ CallInit
    \/ \E u \in EngUsers, n \in 0..MaxEngNote : CallNoteOn(u, n)
    \/ \E u \in EngUsers, n \in 0..MaxEngNote : CallNoteOff(u, n)
    \/ \E u \in EngUsers, f \in Effects : CallUpdateUserEffects(u, f)
    \/ \E i \in 1..Len(timers) : DisposeTimer(i)

SpecEngine == Init /\ [][EngineNext]_vars

SpecEngineLive == SpecEngine /\ WF_vars(\E i \in 1..Len(timers) : DisposeTimer(i))

(* Pitch lookups over a window of indices around zero, for every scale of  *)
(* the table and for names the table does not have.                        *)
UnknownScales == {"", "blues", "Major"}

ScaleInputs == DOMAIN SCALES \cup UnknownScales

BaseFreqs == {150, 220}

PitchIndexes == (0 - MaxPitchIndex)..MaxPitchIndex

PitchNext ==
    \E base \in BaseFreqs, scaleName \in ScaleInputs, index \in PitchIndexes :
        CallGetFreq(base, scaleName, index)

SpecPitch == Init /\ [][PitchNext]_vars

-----------------------------------------------------------------------------
(* Inbound traffic: what the transport can notify this client of           *)

SenderIds == {LocalId} \cup RemoteIds

Timestamps == 1..MaxTime

Stamped(m) == {m} \cup {m @@ ("timestamp" :> t) : t \in Timestamps}

NoteEvents ==
    UNION {Stamped([type |-> ty, senderId |-> s, payload |-> [noteIndex |-> n]]) :
             ty \in {"NOTE_ON", "NOTE_OFF"}, s \in SenderIds, n \in 0..MaxNoteIndex}

JoinEvents ==
    UNION {Stamped([type |-> "JOIN", senderId |-> s, payload |-> RecordOf(s)]) : s \in SenderIds}

LeaveEvents ==
    {[type |-> "LEAVE", senderId |-> s, payload |-> "null", timestamp |-> MaxTime] :
        s \in SenderIds}

EffectEvents ==
    {[type |-> "EFFECT_CHANGE", senderId |-> s, payload |-> [effect |-> f, active |-> a],
      timestamp |-> MaxTime] : s \in SenderIds, f \in Effects, a \in BOOLEAN}

(* SYNC_THEME / SYNC_SCALE of this client's own id; those of other senders *)
(* are the subject of SpecRoom.                                            *)
OwnSyncEvents ==
    {SyncThemeMsg(LocalId, t) : t \in ThemeChoices} \cup
    {SyncScaleMsg(LocalId, sc) : sc \in ScaleChoices}

Events == NoteEvents \cup JoinEvents \cup LeaveEvents \cup EffectEvents \cup OwnSyncEvents

WithinBounds(data) ==
    data.type = "EFFECT_CHANGE" /\ data.payload.active =>
        \A i \in Find(remoteUsers, data.senderId) :
            Len(remoteUsers[i].activeEffects) < MaxListLen

Eagerness(data) == IF data.type = "EFFECT_CHANGE" THEN BOOLEAN ELSE {TRUE}

(* Scheduling assumptions of the bounded model: at most MaxPendingApp      *)
(* released voices await disposal when the next input arrives, and the    *)
(* user touches the keyboard only after JOIN has been sent.               *)
Quiet == Len(timers) <= MaxPendingApp

RemoteNext ==
    \/ JoinRoom
    \/ \E data \in Events : \E eager \in Eagerness(data) :
          Quiet /\ WithinBounds(data) /\ OnEventAdded(data, eager) /\ UNCHANGED roomVars
    \/ \E s \in SenderIds : OnPresenceAdded(RecordOf(s)) /\ UNCHANGED roomVars
    \/ \E s \in SenderIds : OnPresenceRemoved(s) /\ UNCHANGED roomVars
    \/ \E i \in 1..Len(timers) : DisposeTimer(i)

SpecRemote == Init /\ [][RemoteNext]_vars

(* JOIN payloads and presence records with fields missing.  A stored       *)
(* record has at least one field.                                          *)
FullRecord == [id |-> PeerId, name |-> "n", colorIndex |-> 2,
               activeNotes |-> <<0>>, activeEffects |-> <<"vibrato">>]

PartialRecords ==
    {[f \in F |-> FullRecord[f]] : F \in (SUBSET DOMAIN FullRecord) \ {{}}}

PartialJoinEvents ==
    UNION {Stamped([type |-> "JOIN", senderId |-> PeerId, payload |-> raw]) :
             raw \in PartialRecords}

RosterRoom == Len(remoteUsers) < MaxRoster

SanitizeNext ==
    \/ JoinRoom
    \/ \E data \in PartialJoinEvents : RosterRoom /\ OnEventAdded(data, TRUE) /\ UNCHANGED roomVars
    \/ \E raw \in PartialRecords : RosterRoom /\ OnPresenceAdded(raw) /\ UNCHANGED roomVars
    \/ \E s \in {PeerId, "unknown"} : OnPresenceRemoved(s) /\ UNCHANGED roomVars

SpecSanitize == Init /\ [][SanitizeNext]_vars

LocalNext ==
    \/ JoinRoom
    \/ SendJoin
    \/ \E key \in NoteKeys \cup EffectKeys, tagName \in TagNames :
          Quiet /\ ~joinTimer /\ HandleKeyDown(key, tagName)
    \/ \E key \in NoteKeys \cup EffectKeys : Quiet /\ ~joinTimer /\ HandleKeyUp(key)
    \/ \E mode \in ChordModes : SetActiveChordMode(mode)
    \/ \E i \in 1..Len(timers) : DisposeTimer(i)

SpecLocal == Init /\ [][LocalNext]_vars

(* Local key events interleaved with the note traffic of a remote sender   *)
RemoteNoteEvents ==
    {[type |-> ty, senderId |-> s, payload |-> [noteIndex |-> n], timestamp |-> MaxTime] :
        ty \in {"NOTE_ON", "NOTE_OFF"}, s \in RemoteIds, n \in 0..MaxEngNote}

NotesChordModes == {"Triad (1-3-5)", "Single"}

(* Here an input arrives once JOIN is sent and every released voice is     *)
(* disposed.                                                               *)
Idle == timers = <<>> /\ ~joinTimer

NotesNext ==
    \/ JoinRoom
    \/ SendJoin
    \/ \E key \in NoteKeys \cup EffectKeys, tagName \in TagNames :
          Idle /\ HandleKeyDown(key, tagName)
    \/ \E key \in NoteKeys \cup EffectKeys : Idle /\ HandleKeyUp(key)
    \/ \E mode \in NotesChordModes : Idle /\ SetActiveChordMode(mode)
    \/ \E s \in RemoteIds : Idle /\ OnPresenceAdded(RecordOf(s)) /\ UNCHANGED roomVars
    \/ \E data \in RemoteNoteEvents : Idle /\ OnEventAdded(data, TRUE) /\ UNCHANGED roomVars
    \/ \E i \in 1..Len(timers) : DisposeTimer(i)

SpecNotes == Init /\ [][NotesNext]_vars

(* The room: the server's lists, one peer client, and the local client     *)
(* processing its notifications in the order the server queued them.       *)

Connected == startTime # 0

HasJoined(p) == \E i \in 1..Len(eventsRef) : eventsRef[i].type = "JOIN" /\ eventsRef[i].senderId = p

ToInbox(notes) == IF Connected THEN inbox \o notes ELSE inbox

PeerJoin(p) ==
    /\ p \notin usersRef
    /\ ~HasJoined(p)
    /\ LET msg == Transport([type |-> "JOIN", senderId |-> p, timestamp |-> MaxTime,
                             payload |-> [id |-> p, name |-> "n", colorIndex |-> 2,
                                          activeNotes |-> <<>>, activeEffects |-> <<>>]])
       IN /\ usersRef' = usersRef \cup {p}
          /\ eventsRef' = Append(eventsRef, msg)
          /\ inbox' = ToInbox(<<AddedNote(RecordOf(p)), EventNote(msg)>>)
    /\ out' = [NoOut EXCEPT !.op = "peerJoin"]
    /\ UNCHANGED <<appVars, engineVars, peer>>

PeerLeave(p) ==
    /\ p \in usersRef
    /\ usersRef' = usersRef \ {p}
    /\ inbox' = ToInbox(<<RemovedNote(p)>>)
    /\ out' = [NoOut EXCEPT !.op = "peerLeave"]
    /\ UNCHANGED <<appVars, engineVars, eventsRef, peer>>

PeerThemeChange(p, newTheme) ==
    /\ p \in usersRef
    /\ peer' = [peer EXCEPT !.theme = newTheme, !.overrideScale = ""]
    /\ LET msg == SyncThemeMsg(p, newTheme)
       IN /\ eventsRef' = Append(eventsRef, msg)
          /\ inbox' = ToInbox(<<EventNote(msg)>>)
    /\ out' = [NoOut EXCEPT !.op = "peerThemeChange"]
    /\ UNCHANGED <<appVars, engineVars, usersRef>>

PeerScaleChange(p, newScale) ==
    /\ p \in usersRef
    /\ peer' = [peer EXCEPT !.overrideScale = newScale]
    /\ LET msg == SyncScaleMsg(p, newScale)
       IN /\ eventsRef' = Append(eventsRef, msg)
          /\ inbox' = ToInbox(<<EventNote(msg)>>)
    /\ out' = [NoOut EXCEPT !.op = "peerScaleChange"]
    /\ UNCHANGED <<appVars, engineVars, usersRef>>

PeerEngine == [ctx |-> 0, activeVoices |-> <<>>, voices |-> <<>>, timers |-> <<>>,
               calls |-> <<>>]

PeerDeliver(p) ==
    /\ p \in usersRef
    /\ peer.cursor < Len(eventsRef)
    /\ LET msg == eventsRef[peer.cursor + 1]
           st  == HandleRemoteMessage([localId |-> p, remoteUsers |-> peerRemoteUsers,
                                       theme |-> peer.theme,
                                       overrideScale |-> peer.overrideScale,
                                       e |-> PeerEngine], msg, TRUE)
       IN /\ peer' = [theme |-> st.theme, overrideScale |-> st.overrideScale,
                      cursor |-> peer.cursor + 1]
          /\ peerRemoteUsers' = st.remoteUsers
    /\ out' = [NoOut EXCEPT !.op = "peerDeliver"]
    /\ UNCHANGED <<localUser, remoteUsers, theme, overrideScale, activeChordMode, startTime,
                   keysHeld, joinTimer, engineVars, eventsRef, usersRef, inbox>>

DeliverEvent ==
    /\ inbox # <<>>
    /\ Head(inbox).kind = "event"
    /\ OnEventAdded(Head(inbox).data, TRUE)
    /\ inbox' = Tail(inbox)
    /\ UNCHANGED <<eventsRef, usersRef, peer>>

DeliverPresenceAdded ==
    /\ inbox # <<>>
    /\ Head(inbox).kind = "added"
    /\ OnPresenceAdded(Head(inbox).data)
    /\ inbox' = Tail(inbox)
    /\ UNCHANGED <<eventsRef, usersRef, peer>>

DeliverPresenceRemoved ==
    /\ inbox # <<>>
    /\ Head(inbox).kind = "removed"
    /\ OnPresenceRemoved(Head(inbox).data)
    /\ inbox' = Tail(inbox)
    /\ UNCHANGED <<eventsRef, usersRef, peer>>

SyncCount == Cardinality({i \in 1..Len(eventsRef) :
                             eventsRef[i].type \in {"SYNC_THEME", "SYNC_SCALE"}})

RoomFor(n) == SyncCount + n <= MaxSync

RoomNext ==
    \/ JoinRoom
    \/ SendJoin
    \/ \E t \in ThemeChoices : RoomFor(1) /\ HandleThemeChange(t)
    \/ \E sc \in ScaleChoices : RoomFor(1) /\ HandleScaleChange(sc)
    \/ \E p \in RemoteIds : PeerJoin(p)
    \/ \E p \in RemoteIds : PeerLeave(p)
    \/ \E p \in RemoteIds, t \in ThemeChoices : RoomFor(1) /\ PeerThemeChange(p, t)
    \/ \E p \in RemoteIds, sc \in ScaleChoices : RoomFor(1) /\ PeerScaleChange(p, sc)
    \/ \E p \in RemoteIds : PeerDeliver(p)
    \/ DeliverEvent
    \/ DeliverPresenceAdded
    \/ DeliverPresenceRemoved

SpecRoom == Init /\ [][RoomNext]_vars

(* Tuning: theme and scale changes, local and of a remote sender, mixed    *)
(* with local key presses and the note traffic of the remote sender.      *)
ScaleOverrides == ScaleChoices \cup {""}

RemoteSyncEvents ==
    {SyncThemeMsg(s, t) : s \in RemoteIds, t \in ThemeChoices} \cup
    {SyncScaleMsg(s, sc) : s \in RemoteIds, sc \in ScaleOverrides}

TuningKeys == {"s"}

TuningNext ==
    \/ JoinRoom
    \/ SendJoin
    \/ \E t \in ThemeChoices : Idle /\ RoomFor(1) /\ HandleThemeChange(t)
    \/ \E sc \in ScaleOverrides : Idle /\ RoomFor(1) /\ HandleScaleChange(sc)
    \/ \E key \in TuningKeys, tagName \in TagNames : Idle /\ HandleKeyDown(key, tagName)
    \/ \E key \in TuningKeys : Idle /\ HandleKeyUp(key)
    \/ \E s \in RemoteIds : Idle /\ OnPresenceAdded(RecordOf(s)) /\ UNCHANGED roomVars
    \/ \E data \in RemoteSyncEvents \cup RemoteNoteEvents :
          Idle /\ OnEventAdded(data, TRUE) /\ UNCHANGED roomVars
    \/ \E i \in 1..Len(timers) : DisposeTimer(i)

SpecTuning == Init /\ [][TuningNext]_vars

(* The effect keys: two hold keys and the reverb key, with one note key    *)
(* so that voices are sounding, pressed with the focus on the page or in   *)
(* a text field.                                                           *)
EffectsSpecKeys == {"s", "c", "z", "v"}

FocusTags == {"BODY", "INPUT"}

EffectsNext ==
    \/ JoinRoom
    \/ SendJoin
    \/ \E key \in EffectsSpecKeys, tagName \in FocusTags : Idle /\ HandleKeyDown(key, tagName)
    \/ \E key \in EffectsSpecKeys : Idle /\ HandleKeyUp(key)
    \/ \E i \in 1..Len(timers) : DisposeTimer(i)

SpecEffects == Init /\ [][EffectsNext]_vars

(* Presence: participants come and go; the transport delivers every       *)
(* notification queued for a connected client, and its callback runs.     *)
PresenceNext ==
    \/ JoinRoom
    \/ SendJoin
    \/ \E p \in RemoteIds : PeerJoin(p)
    \/ \E p \in RemoteIds : PeerLeave(p)
    \/ \E p \in RemoteIds : PeerDeliver(p)
    \/ DeliverEvent
    \/ DeliverPresenceAdded
    \/ DeliverPresenceRemoved

SpecPresence ==
    /\ Init /\ [][PresenceNext]_vars
    /\ WF_vars(DeliverEvent)
    /\ WF_vars(DeliverPresenceAdded)
    /\ WF_vars(DeliverPresenceRemoved)

(* Theme generation.  The design service throws, or answers with a text   *)
(* that is empty, is not JSON, or is JSON for some value: a full Theme or *)
(* an object with some of its fields missing.                             *)
FallbackTheme ==
    [name |-> "Fallback Neon", scale |-> "pentatonic_minor", synthConfig |-> [release |-> 1500]]

GeneratedTheme == [name |-> "Generated", scale |-> "major", synthConfig |-> [release |-> 300]]

JsonValues == {[f \in F |-> GeneratedTheme[f]] : F \in SUBSET DOMAIN GeneratedTheme}

ResponseTexts ==
    {[empty |-> TRUE, parses |-> FALSE, value |-> <<>>],
     [empty |-> FALSE, parses |-> FALSE, value |-> <<>>]} \cup
    {[empty |-> FALSE, parses |-> TRUE, value |-> v] : v \in JsonValues}

ServiceOutcomes ==
    {[thrown |-> TRUE, text |-> [empty |-> TRUE, parses |-> FALSE, value |-> <<>>]]} \cup
    {[thrown |-> FALSE, text |-> t] : t \in ResponseTexts}

GenerateTheme(outcome) ==
    IF outcome.thrown THEN FallbackTheme
    ELSE IF outcome.text.empty THEN FallbackTheme
    ELSE IF ~outcome.text.parses THEN FallbackTheme
    ELSE outcome.text.value

HandleGenerate(outcome) ==
    /\ localUser # NoUser
    /\ LET newTheme == GenerateTheme(outcome)
           msg == SyncThemeMsg(localUser.id, newTheme)
       IN /\ theme' = newTheme
          /\ overrideScale' = ""
          /\ eventsRef' = Append(eventsRef, msg)
          /\ inbox' = Append(inbox, EventNote(msg))
          /\ out' = [NoOut EXCEPT !.op = "generate", !.input = <<outcome>>, !.sent = <<msg>>,
                                  !.calls = <<[op |-> "generateTheme", result |-> newTheme]>>]
    /\ UNCHANGED <<localUser, remoteUsers, activeChordMode, engineVars, startTime, keysHeld,
                   joinTimer, peerRemoteUsers, usersRef, peer>>

ThemeNext ==
    \/ JoinRoom
    \/ SendJoin
    \/ \E outcome \in ServiceOutcomes : RoomFor(1) /\ HandleGenerate(outcome)
    \/ DeliverEvent
    \/ DeliverPresenceAdded

SpecTheme == Init /\ [][ThemeNext]_vars

(* Clocks: a peer sends notes stamped with its own clock, which runs at    *)
(* any offset from this client's; its note timestamps never decrease.     *)
(* This client connects at any point of the peer's sequence.  A           *)
(* notification raised for a write made after the listener was attached   *)
(* is marked live; the others replay the list as it was.                  *)
LiveNote(data) == [kind |-> "event", data |-> data, live |-> TRUE]

SentNotes(p) == {i \in 1..Len(eventsRef) : /\ eventsRef[i].senderId = p
                                           /\ eventsRef[i].type \in {"NOTE_ON", "NOTE_OFF"}}

PeerSendNote(p, type, noteIndex, stamp) ==
    /\ p \in usersRef
    /\ Cardinality(SentNotes(p)) < MaxSent
    /\ \A i \in SentNotes(p) : eventsRef[i].timestamp <= stamp
    /\ LET msg == [type |-> type, senderId |-> p, payload |-> [noteIndex |-> noteIndex],
                   timestamp |-> stamp]
       IN /\ eventsRef' = Append(eventsRef, msg)
          /\ inbox' = ToInbox(<<LiveNote(msg)>>)
    /\ out' = [NoOut EXCEPT !.op = "peerSendNote"]
    /\ UNCHANGED <<appVars, engineVars, usersRef, peer>>

ClockNext ==
    \/ JoinRoom
    \/ SendJoin
    \/ \E p \in RemoteIds : PeerJoin(p)
    \/ \E p \in RemoteIds, type \in {"NOTE_ON", "NOTE_OFF"}, n \in 0..MaxEngNote,
          stamp \in Timestamps : PeerSendNote(p, type, n, stamp)
    \/ DeliverEvent
    \/ DeliverPresenceAdded
    \/ \E i \in 1..Len(timers) : DisposeTimer(i)

SpecClock == Init /\ [][ClockNext]_vars

(* JOIN messages whose payload names the sender, names somebody else or   *)
(* has no id, with LEAVE messages and presence notifications.             *)
JoinPayloads ==
    {RecordOf(id) : id \in RemoteIds \cup {"B"}} \cup
    {[id |-> id] : id \in RemoteIds \cup {"B"}} \cup
    {[name |-> "n", colorIndex |-> 2]}

AnyJoinEvents ==
    {[type |-> "JOIN", senderId |-> s, payload |-> raw, timestamp |-> MaxTime] :
        s \in RemoteIds \cup {"B"}, raw \in JoinPayloads}

RosterNext ==
    \/ JoinRoom
    \/ \E data \in AnyJoinEvents :
          Len(remoteUsers) <= MaxRoster /\ OnEventAdded(data, TRUE) /\ UNCHANGED roomVars
    \/ \E data \in LeaveEvents : OnEventAdded(data, TRUE) /\ UNCHANGED roomVars
    \/ \E raw \in JoinPayloads :
          Len(remoteUsers) <= MaxRoster /\ OnPresenceAdded(raw) /\ UNCHANGED roomVars
    \/ \E id \in RemoteIds \cup {"B", "unknown"} : OnPresenceRemoved(id) /\ UNCHANGED roomVars

SpecRoster == Init /\ [][RosterNext]_vars

(* Two remote senders.  The events list fixes one interleaving of their   *)
(* messages; this client, connected before the first of them, is notified *)
(* of each event as it is listed.                                         *)
PairEvents ==
    {[type |-> "JOIN", senderId |-> p, payload |-> RecordOf(p), timestamp |-> MaxTime] :
        p \in {"A", "B"}} \cup
    {[type |-> "LEAVE", senderId |-> p, payload |-> "null", timestamp |-> MaxTime] :
        p \in {"A", "B"}} \cup
    {[type |-> ty, senderId |-> p, payload |-> [noteIndex |-> n], timestamp |-> MaxTime] :
        ty \in {"NOTE_ON", "NOTE_OFF"}, p \in {"A", "B"}, n \in 0..MaxEngNote} \cup
    {[type |-> "EFFECT_CHANGE", senderId |-> p, payload |-> [effect |-> "vibrato", active |-> a],
      timestamp |-> MaxTime] : p \in {"A", "B"}, a \in BOOLEAN}

ListedAndDelivered(data) ==
    /\ Len(eventsRef) < MaxLog
    /\ OnEventAdded(data, TRUE)
    /\ eventsRef' = Append(eventsRef, data)
    /\ UNCHANGED <<usersRef, inbox, peer>>

PairNext ==
    \/ JoinRoom
    \/ \E data \in PairEvents : ListedAndDelivered(data)

SpecPair == Init /\ [][PairNext]_vars

Next == LocalNext \/ RemoteNext \/ EngineNext \/ PitchNext \/ RoomNext \/ SanitizeNext \/ NotesNext
          \/ TuningNext \/ EffectsNext \/ PresenceNext \/ ThemeNext
          \/ ClockNext \/ RosterNext \/ PairNext

Spec == Init /\ [][Next]_vars

-----------------------------------------------------------------------------
(* Properties                                                              *)

Calls(opName) == {i \in 1..Len(out.calls) : out.calls[i].op = opName}

NoteOnCalled(userId, d) ==
    \E i \in Calls("noteOn") : out.calls[i].userId = userId /\ out.calls[i].noteIndex = d

Sent(type) == {i \in 1..Len(out.sent) : out.sent[i].type = type}

NoteMsgSent(type, d) == \E i \in Sent(type) : out.sent[i].payload.noteIndex = d

(* C1: a degree of a key press that the polyphony ceiling rejects gets no  *)
(* audioEngine.noteOn call and no NOTE_ON message.                         *)
C1_RejectedNoteIsSilent ==
    out.op = "keydown" =>
        \A d \in out.rejected :
            ~NoteOnCalled(LocalId, d) /\ ~NoteMsgSent("NOTE_ON", d)

(* C2: the local participant never holds more than MAX_POLYPHONY notes.    *)
C2_LocalPolyphonyCeiling ==
    localUser # NoUser => Len(localUser.activeNotes) <= MAX_POLYPHONY

C2_Witness ==
    /\ localUser # NoUser
    /\ Len(localUser.activeNotes) = MAX_POLYPHONY
    /\ out.op = "keydown"
    /\ out.rejected # {}

EngKeys == {VoiceKey(u, n) : u \in EngUsers, n \in 0..MaxEngNote}

VoiceIds == {<<u, n, slot>> : u \in EngUsers, n \in 0..MaxEngNote, slot \in 1..(MaxPending + 3)}

Releasing(v) == v \in DOMAIN voices /\ voices[v].state = "releasing"

Disposed(v) == out.op = "dispose" /\ out.calls[1].voice = v

Retriggered(id) ==
    /\ out'.op = "noteOn"
    /\ out'.calls[Len(out'.calls)].userId = id[1]
    /\ out'.calls[Len(out'.calls)].noteIndex = id[2]
    /\ id \in DOMAIN activeVoices

(* C3: noteOn on a key that already has a Voice leaves one registry entry  *)
(* for the key, a new Voice; the old Voice is released and is eventually   *)
(* disposed by its timer.                                                  *)
C3_ReplaceOnRetrigger ==
    /\ [][\A id \in EngKeys :
            Retriggered(id) =>
               /\ id \in DOMAIN activeVoices'
               /\ activeVoices'[id] # activeVoices[id]
               /\ activeVoices'[id] \notin DOMAIN voices
               /\ voices'[activeVoices'[id]].state = "running"
               /\ activeVoices[id] \in DOMAIN voices'
               /\ voices'[activeVoices[id]].state = "releasing"
               /\ \E i \in 1..Len(timers') : timers'[i].voice = activeVoices[id]]_vars
    /\ \A v \in VoiceIds : Releasing(v) ~> Disposed(v)

C3_Witness ==
    /\ out.op = "noteOn"
    /\ Calls("release") # {}
    /\ \E i \in Calls("release") :
          /\ voices[out.calls[i].voice].state = "releasing"
          /\ out.calls[i].voice # out.calls[Len(out.calls)].voice

NoteOffStep(id) ==
    /\ out'.op = "noteOff"
    /\ out'.calls[1].userId = id[1]
    /\ out'.calls[1].noteIndex = id[2]

ReleasesIn(o) == {i \in 1..Len(o.calls) : o.calls[i].op = "release"}

(* C4: noteOff deregisters the key and releases its Voice once; noteOff on *)
(* a key that is not registered (a second noteOff) changes nothing.        *)
C4_IdempotentNoteOff ==
    [][\A id \in EngKeys :
         NoteOffStep(id) =>
            IF id \in DOMAIN activeVoices
            THEN /\ activeVoices' = Without(activeVoices, id)
                 /\ Cardinality(ReleasesIn(out')) = 1
                 /\ \A i \in ReleasesIn(out') : out'.calls[i].voice = activeVoices[id]
                 /\ voices'[activeVoices[id]].state = "releasing"
                 /\ Len(timers') = Len(timers) + 1
            ELSE /\ UNCHANGED <<ctx, activeVoices, voices, timers>>
                 /\ ReleasesIn(out') = {}]_vars

C4_Witness ==
    /\ out.op = "noteOff"
    /\ Calls("release") = {}
    /\ VoiceKey(out.calls[1].userId, out.calls[1].noteIndex) \notin DOMAIN activeVoices
    /\ \E i \in 1..Len(timers) :
          /\ timers[i].voice[1] = out.calls[1].userId
          /\ timers[i].voice[2] = out.calls[1].noteIndex

IsStale(data) ==
    /\ data.type \in {"NOTE_ON", "NOTE_OFF"}
    /\ "timestamp" \in DOMAIN data
    /\ data.timestamp < startTime

(* C5: a NOTE_ON or NOTE_OFF event stamped before connect() started        *)
(* observing is never passed to the callback and changes neither the       *)
(* roster nor the voices; every JOIN event and every presence-add record   *)
(* is passed, whatever its timestamp.                                      *)
C5_ReplayFiltering ==
    /\ [](out.op = "event" =>
            /\ IsStale(out.input[1]) => out.delivered = <<>>
            /\ out.input[1].type = "JOIN" => out.delivered = out.input)
    /\ [](out.op = "presenceAdded" =>
            /\ Len(out.delivered) = 1
            /\ out.delivered[1].type = "JOIN")
    /\ [][out'.op = "event" /\ IsStale(out'.input[1]) =>
            UNCHANGED <<remoteUsers, activeVoices, voices, timers>>]_vars

C5_Witness ==
    /\ out.op = "event"
    /\ IsStale(out.input[1])
    /\ out.delivered = <<>>
    /\ remoteUsers # <<>>

LeaveProcessed(p) ==
    /\ out.op \in {"event", "presenceRemoved"}
    /\ Len(out.delivered) = 1
    /\ out.delivered[1].type = "LEAVE"
    /\ out.delivered[1].senderId = p
    /\ p # localUser.id

(* C6: once a LEAVE for p has been processed, the roster has no entry for  *)
(* p and the registry holds no Voice of p.                                 *)
C6_LeaveReleasesVoices ==
    \A p \in RemoteIds :
        LeaveProcessed(p) =>
            /\ Find(remoteUsers, p) = {}
            /\ \A k \in DOMAIN activeVoices : k[1] # p

Mirrors(user) ==
    \A d \in Range(user.activeNotes) \cup {k[2] : k \in {x \in DOMAIN activeVoices : x[1] = user.id}} :
        Includes(user.activeNotes, d) <=> VoiceKey(user.id, d) \in DOMAIN activeVoices

(* C7: for the local participant and every roster entry, a degree is in    *)
(* activeNotes exactly when the registry holds a Voice for it.             *)
C7_HeldNotesMirrorVoices ==
    /\ localUser # NoUser => Mirrors(localUser)
    /\ \A i \in 1..Len(remoteUsers) : Mirrors(remoteUsers[i])

(* C8: when a held note key is released, no degree its press sounded stays *)
(* in activeNotes or in the registry, and each got a NOTE_OFF.             *)
C8_KeyUpMirrorsKeyDown ==
    [][\A key \in DOMAIN keysHeld :
         key \notin DOMAIN keysHeld' =>
            \A d \in keysHeld[key] :
               /\ ~Includes(localUser'.activeNotes, d)
               /\ VoiceKey(LocalId, d) \notin DOMAIN activeVoices'
               /\ \E i \in 1..Len(out'.sent) :
                     /\ out'.sent[i].type = "NOTE_OFF"
                     /\ out'.sent[i].payload.noteIndex = d]_vars

Count(s, x) == Cardinality({i \in 1..Len(s) : s[i] = x})

(* C9: after EFFECT_CHANGE{effect, active: true} the sender's              *)
(* activeEffects holds the effect exactly once.                            *)
C9_EffectSetSemantics ==
    /\ out.op = "event"
    /\ Len(out.delivered) = 1
    /\ out.delivered[1].type = "EFFECT_CHANGE"
    /\ out.delivered[1].payload.active
    => \A i \in Find(remoteUsers, out.delivered[1].senderId) :
          Count(remoteUsers[i].activeEffects, out.delivered[1].payload.effect) = 1

(* C10: the UserState a peer derives from JOIN and the following messages  *)
(* equals the sender's own local UserState.                                *)
C10_ReconciliationRoundTrip ==
    \A i \in Find(peerRemoteUsers, LocalId) :
        /\ peerRemoteUsers[i].activeNotes = localUser.activeNotes
        /\ peerRemoteUsers[i].activeEffects = localUser.activeEffects

PeerEffectiveScale == IF peer.overrideScale # "" THEN peer.overrideScale ELSE peer.theme.scale

AllDelivered ==
    /\ Connected
    /\ PeerId \in usersRef
    /\ inbox = <<>>
    /\ peer.cursor = Len(eventsRef)

(* C11: once the local client and the peer have both processed every       *)
(* SYNC_THEME and SYNC_SCALE message of the room, they hold the same theme *)
(* and the same effective scale.                                           *)
C11_ThemeAndScaleConverge ==
    AllDelivered => theme = peer.theme /\ EffectiveScale = PeerEffectiveScale

RosterIds == {remoteUsers[i].id : i \in 1..Len(remoteUsers)}

(* C12: when the connected client has processed the backlog of events and  *)
(* every presence notification, its remote roster holds exactly the other  *)
(* participants that have a presence record.                               *)
C12_LateJoinerRoster ==
    Connected /\ inbox = <<>> => RosterIds = usersRef \ {LocalId}

(* C13: for every scale of the table and every integer index, getFreq      *)
(* yields semitones = 12 * floor(index / L) + pitchClasses[index mod L]    *)
(* with index mod L in 0..L-1, a defined integer.                          *)
C13_PitchMappingTotal ==
    out.op = "getFreq" /\ out.input[2] \in DOMAIN SCALES =>
        LET pitchClasses == SCALES[out.input[2]]
            L == Len(pitchClasses)
            index == out.input[3]
        IN /\ ~out.calls[1].nan
           /\ out.calls[1].semitones = 12 * (index \div L) + pitchClasses[(index % L) + 1]

Inbound == {"event", "presenceAdded", "presenceRemoved"}

(* C15: an inbound message of any type whose senderId is the local         *)
(* participant's id changes neither the remote roster, the theme, the      *)
(* scale override nor the voice registry, and the local participant is     *)
(* never in the remote roster.                                             *)
C15_OwnMessagesDiscarded ==
    /\ [](localUser # NoUser => localUser.id \notin RosterIds)
    /\ [][(/\ out'.op \in Inbound
            /\ Len(out'.delivered) = 1
            /\ out'.delivered[1].senderId = localUser.id)
          => UNCHANGED <<remoteUsers, theme, overrideScale, activeVoices>>]_vars

C15_Witness ==
    /\ out.op = "event"
    /\ Len(out.delivered) = 1
    /\ out.delivered[1].senderId = localUser.id
    /\ out.delivered[1].type = "SYNC_THEME"
    /\ out.delivered[1].payload # theme
    /\ remoteUsers # <<>>

JoinDelivered(o) ==
    /\ o.op \in {"event", "presenceAdded"}
    /\ Len(o.delivered) = 1
    /\ o.delivered[1].type = "JOIN"

(* C16: a JOIN for a sender that has a roster entry leaves the roster      *)
(* unchanged, so every participant has at most one entry and its held      *)
(* notes and effects are not reset.                                        *)
C16_JoinIdempotent ==
    /\ [](\A i, j \in 1..Len(remoteUsers) :
            remoteUsers[i].id = remoteUsers[j].id => i = j)
    /\ [][(JoinDelivered(out') /\ Find(remoteUsers, out'.delivered[1].senderId) # {})
          => remoteUsers' = remoteUsers]_vars

C16_Witness ==
    /\ JoinDelivered(out)
    /\ \E i \in Find(remoteUsers, out.delivered[1].senderId) :
          /\ remoteUsers[i].activeNotes # <<>>
          /\ remoteUsers[i].activeEffects # <<>>

RawOf(o) == IF o.op = "event" THEN o.input[1].payload ELSE o.input[1]

FieldOr(raw, f, default) == IF f \in DOMAIN raw THEN raw[f] ELSE default

C18_NoteOnThenOff ==
    (/\ out.op = "event"
     /\ Len(out.delivered) = 1
     /\ out.delivered[1].type = "NOTE_OFF"
     /\ out.delivered[1].senderId # localUser.id)
    => /\ \A i \in Find(remoteUsers, out.delivered[1].senderId) :
             ~Includes(remoteUsers[i].activeNotes, out.delivered[1].payload.noteIndex)
       /\ VoiceKey(out.delivered[1].senderId, out.delivered[1].payload.noteIndex)
             \notin DOMAIN activeVoices

C18_Witness ==
    /\ out.op = "event"
    /\ Len(out.delivered) = 1
    /\ out.delivered[1].type = "NOTE_OFF"
    /\ Find(remoteUsers, out.delivered[1].senderId) # {}
    /\ Calls("release") # {}

NoDuplicates(s) == \A i, j \in 1..Len(s) : s[i] = s[j] => i = j

NoteDelivered(o, type) ==
    /\ o.op = "event"
    /\ Len(o.delivered) = 1
    /\ o.delivered[1].type = type

Holds(roster, msg) ==
    \E i \in Find(roster, msg.senderId) :
        Includes(roster[i].activeNotes, msg.payload.noteIndex)

(* C19: no participant's activeNotes holds a degree twice, whatever local  *)
(* key events and remote NOTE_ON / NOTE_OFF messages have been processed;  *)
(* a NOTE_ON for a degree the sender already holds and a NOTE_OFF for a    *)
(* degree it does not hold leave the roster unchanged.                     *)
C19_NoDuplicateNotes ==
    /\ [](/\ localUser # NoUser => NoDuplicates(localUser.activeNotes)
          /\ \A i \in 1..Len(remoteUsers) : NoDuplicates(remoteUsers[i].activeNotes)
          /\ \A i \in 1..Len(peerRemoteUsers) : NoDuplicates(peerRemoteUsers[i].activeNotes))
    /\ [][(NoteDelivered(out', "NOTE_ON") /\ Holds(remoteUsers, out'.delivered[1]))
          => remoteUsers' = remoteUsers]_vars
    /\ [][(NoteDelivered(out', "NOTE_OFF") /\ ~Holds(remoteUsers, out'.delivered[1]))
          => remoteUsers' = remoteUsers]_vars

C19_Witness ==
    /\ NoteDelivered(out, "NOTE_ON")
    /\ Holds(remoteUsers, out.delivered[1])
    /\ Calls("release") # {}
    /\ localUser # NoUser
    /\ Len(localUser.activeNotes) > 1

(* C20: no remote roster entry, on this client or on a peer fed by this    *)
(* client's key handling, holds more than MAX_POLYPHONY notes.             *)
C20_RemotePolyphonyCeiling ==
    /\ \A i \in 1..Len(remoteUsers) : Len(remoteUsers[i].activeNotes) <= MAX_POLYPHONY
    /\ \A i \in 1..Len(peerRemoteUsers) : Len(peerRemoteUsers[i].activeNotes) <= MAX_POLYPHONY

RemoteDelivered(o, type) ==
    /\ NoteDelivered(o, type)
    /\ o.delivered[1].senderId # localUser.id

KnownEffects(roster, id) ==
    IF Find(roster, id) = {} THEN <<>>
    ELSE roster[CHOOSE i \in Find(roster, id) : TRUE].activeEffects

(* C28: the effect set passed to audioEngine.noteOn for a remote NOTE_ON   *)
(* is the sender's activeEffects in the roster at that moment.             *)
C28_RemoteNoteOnKnownEffects ==
    RemoteDelivered(out, "NOTE_ON") =>
        \A i \in Calls("noteOn") :
            out.calls[i].effects = KnownEffects(remoteUsers, out.delivered[1].senderId)

(* C30: for an EFFECT_CHANGE of a remote sender in the roster, the set     *)
(* passed to audioEngine.updateUserEffects is the sender's activeEffects   *)
(* after the change.                                                       *)
C30_EffectChangePushesUpdatedSet ==
    (RemoteDelivered(out, "EFFECT_CHANGE") /\ Find(remoteUsers, out.delivered[1].senderId) # {})
    => /\ Calls("updateUserEffects") # {}
       /\ \A i \in Calls("updateUserEffects") :
             out.calls[i].effects = KnownEffects(remoteUsers, out.delivered[1].senderId)

(* C29: a remote NOTE_ON is sounded with the scale in force (override if   *)
(* set, else the theme's) and the SynthConfig of the theme in force when   *)
(* the NOTE_ON is processed.                                               *)
C29_RemoteNoteOnCurrentTuning ==
    RemoteDelivered(out, "NOTE_ON") =>
        \A i \in Calls("noteOn") :
            /\ out.calls[i].scale = EffectiveScale
            /\ out.calls[i].config = theme.synthConfig

AppliedTheme(o) == o.op = "themeChange" \/ RemoteDelivered(o, "SYNC_THEME")

AppliedScale(o) == o.op = "scaleChange" \/ RemoteDelivered(o, "SYNC_SCALE")

PayloadOf(o) ==
    IF o.op \in {"themeChange", "scaleChange"} THEN o.sent[1].payload
    ELSE o.delivered[1].payload

(* The override is the payload of the last scale change since the last     *)
(* theme change, the theme is the payload of the last theme change.        *)
ScaleStateRule ==
    [][/\ AppliedTheme(out') => theme' = PayloadOf(out') /\ overrideScale' = ""
       /\ AppliedScale(out') => overrideScale' = PayloadOf(out') /\ theme' = theme
       /\ (~AppliedTheme(out') /\ ~AppliedScale(out')) => UNCHANGED <<theme, overrideScale>>]_vars

(* C21: every pitch mapping uses the payload of the most recent scale      *)
(* change applied since the most recent theme change if it is non-empty,   *)
(* and the scale of the current theme otherwise; a theme change replaces   *)
(* the theme and clears the override.                                      *)
C21_EffectiveScaleRule ==
    /\ ScaleStateRule
    /\ [](\A i \in Calls("noteOn") : out.calls[i].scale = EffectiveScale)

OwnedVoices(userId) == {activeVoices[k] : k \in {x \in DOMAIN activeVoices : x[1] = userId}}

(* C22: updateUserEffects(p, E) calls updateEffects(E) on exactly the      *)
(* registered voices that noteOn created for p, on no voice of another     *)
(* participant, and leaves the registry, the voices and the timers as      *)
(* they were; with no registered voice of p it does nothing.               *)
C22_EffectsIsolatedPerUser ==
    /\ [](\A i \in Calls("updateUserEffects") :
             out.calls[i].voices = OwnedVoices(out.calls[i].userId))
    /\ [][out'.op = "updateUserEffects" => UNCHANGED engineVars]_vars

C22_Witness ==
    /\ out.op = "updateUserEffects"
    /\ \E i \in Calls("updateUserEffects") :
          /\ out.calls[i].voices # {}
          /\ \E q \in EngUsers \ {out.calls[i].userId} : OwnedVoices(q) # {}

Played == {VoiceKey(out.calls[i].userId, out.calls[i].noteIndex) : i \in Calls("noteOn")}

(* C27: the master bus is built at most once per engine and never          *)
(* replaced; an init() call on an initialized engine changes neither the   *)
(* bus nor the voice registry, and a noteOn on an initialized engine       *)
(* keeps the bus and every registry entry other than the key it plays.     *)
C27_InitIdempotent ==
    /\ [](ctx \in {0, 1})
    /\ [][ctx # 0 => ctx' = ctx]_vars
    /\ [][(out'.op = "init" /\ ctx # 0) => UNCHANGED engineVars]_vars
    /\ [][(out'.op = "noteOn" /\ ctx # 0) =>
            \A k \in DOMAIN activeVoices :
                k \in Played' \/ (k \in DOMAIN activeVoices' /\ activeVoices'[k] = activeVoices[k])]_vars

C27_Witness ==
    /\ out.op = "init"
    /\ ctx = 1
    /\ activeVoices # <<>>

HoldKeys == {k \in DOMAIN EFFECT_KEYS : EFFECT_KEYS[k] # "reverb_max"}

ReverbKey == CHOOSE k \in DOMAIN EFFECT_KEYS : EFFECT_KEYS[k] = "reverb_max"

Held(k) == k \in DOMAIN keysHeld

EnginePushed(o, effects) ==
    \E i \in 1..Len(o.calls) :
        /\ o.calls[i].op = "updateUserEffects"
        /\ o.calls[i].userId = LocalId
        /\ o.calls[i].effects = effects

(* C23 as stated: a hold effect is active exactly while its key is held.   *)
C23_ActiveExactlyWhileHeld ==
    localUser # NoUser =>
        \A k \in HoldKeys : Includes(localUser.activeEffects, EFFECT_KEYS[k]) <=> Held(k)

(* C23: a hold effect is active only while its key is held; a key-down     *)
(* outside a text field (auto-repeat ignored) adds it once, sends one      *)
(* EFFECT_CHANGE{active: true} and pushes the new set to the engine;       *)
(* key-up removes it, sends one EFFECT_CHANGE{active: false} and pushes    *)
(* the new set to the engine.                                              *)
C23_HoldToActivate ==
    /\ [](localUser # NoUser =>
            \A k \in HoldKeys : Includes(localUser.activeEffects, EFFECT_KEYS[k]) => Held(k))
    /\ [][\A k \in HoldKeys :
            /\ (~Held(k) /\ HandleKeyDown(k, "BODY")) =>
                  /\ Count(localUser'.activeEffects, EFFECT_KEYS[k]) = 1
                  /\ out'.sent = <<EffectChangeMsg(EFFECT_KEYS[k], TRUE)>>
                  /\ EnginePushed(out', localUser'.activeEffects)
            /\ (Held(k) /\ \E tagName \in FocusTags : HandleKeyDown(k, tagName)) =>
                  /\ localUser' = localUser
                  /\ out'.sent = <<>>
            /\ HandleKeyUp(k) =>
                  /\ Count(localUser'.activeEffects, EFFECT_KEYS[k]) = 0
                  /\ out'.sent = <<EffectChangeMsg(EFFECT_KEYS[k], FALSE)>>
                  /\ EnginePushed(out', localUser'.activeEffects)]_vars

C23_Witness ==
    /\ out.op = "keydown"
    /\ out.sent = <<EffectChangeMsg("vibrato", TRUE)>>
    /\ \E i \in Calls("updateUserEffects") : out.calls[i].voices # {}
    /\ Includes(localUser.activeEffects, "filter_close")

Flipped(before, after) ==
    Count(after, "reverb_max") = (IF Includes(before, "reverb_max") THEN 0 ELSE 1)

(* C24 as stated: every non-repeat key-down of the reverb key flips        *)
(* reverb_max.                                                             *)
C24_EveryPressFlips ==
    [][\A tagName \in FocusTags :
          (~Held(ReverbKey) /\ HandleKeyDown(ReverbKey, tagName)) =>
              Flipped(localUser.activeEffects, localUser'.activeEffects)]_vars

(* C24: a non-repeat key-down of the reverb key outside a text field       *)
(* flips membership of reverb_max in the local activeEffects and sends     *)
(* EFFECT_CHANGE with active equal to the new state; key-up of the reverb  *)
(* key changes no state and sends nothing.                                 *)
C24_ReverbToggle ==
    [][/\ (~Held(ReverbKey) /\ HandleKeyDown(ReverbKey, "BODY")) =>
             /\ Flipped(localUser.activeEffects, localUser'.activeEffects)
             /\ out'.sent = <<EffectChangeMsg("reverb_max",
                                               Includes(localUser'.activeEffects, "reverb_max"))>>
             /\ EnginePushed(out', localUser'.activeEffects)
       /\ HandleKeyUp(ReverbKey) =>
             /\ UNCHANGED <<localUser, engineVars, peerRemoteUsers>>
             /\ out'.sent = <<>>
             /\ out'.calls = <<>>]_vars

C24_Witness ==
    /\ out.op = "keydown"
    /\ out.sent = <<EffectChangeMsg("reverb_max", FALSE)>>
    /\ ~Includes(localUser.activeEffects, "reverb_max")

RemovalQueued(p) ==
    /\ Connected
    /\ \E i \in 1..Len(inbox) : inbox[i].kind = "removed" /\ inbox[i].data = p

(* C25: sending JOIN stores the sender's presence record; once the record  *)
(* of a departed participant p is removed, a connected client eventually   *)
(* processes a LEAVE with senderId p, and from some point on p is not in   *)
(* its remote roster.                                                      *)
C25_DepartureEventuallySeen ==
    /\ [][SendJoin => localUser.id \in usersRef']_vars
    /\ [][\A p \in RemoteIds : PeerJoin(p) => p \in usersRef']_vars
    /\ \A p \in RemoteIds : RemovalQueued(p) ~> (LeaveProcessed(p) /\ p \notin RosterIds)
    /\ \A p \in RemoteIds : RemovalQueued(p) ~> [](p \notin RosterIds)

C25_Witness ==
    /\ LeaveProcessed(PeerId)
    /\ out.op = "presenceRemoved"
    /\ PeerId \notin RosterIds
    /\ HasJoined(PeerId)

WellFormedTheme(t) ==
    /\ DOMAIN t = DOMAIN DEFAULT_THEME
    /\ t.scale \in DOMAIN SCALES
    /\ DOMAIN t.synthConfig = DOMAIN DEFAULT_THEME.synthConfig

ServiceFailed(outcome) == outcome.thrown \/ outcome.text.empty \/ ~outcome.text.parses

(* C26: whatever the design service does, generateTheme returns a          *)
(* well-formed Theme, and it returns the built-in fallback Theme when the  *)
(* service failed or its result is not a well-formed Theme.                *)
C26_GenerateThemeNeverFails ==
    out.op = "generate" =>
        /\ WellFormedTheme(out.calls[1].result)
        /\ (ServiceFailed(out.input[1]) \/ ~WellFormedTheme(out.input[1].text.value))
              => out.calls[1].result = FallbackTheme

TimersOf(v) == {i \in 1..Len(timers) : timers[i].voice = v}

(* C32: release() is invoked only on a running Voice, at most once per     *)
(* Voice in a call, so a Voice has at most one disposal timer; a Voice     *)
(* with a timer is no longer running and a releasing Voice has its timer.  *)
C32_ReleasedAtMostOnce ==
    /\ [](\A v \in DOMAIN voices :
            /\ Cardinality(TimersOf(v)) <= 1
            /\ voices[v].state = "running" => TimersOf(v) = {}
            /\ voices[v].state = "releasing" => Cardinality(TimersOf(v)) = 1)
    /\ [][\A i \in ReleasesIn(out') :
            /\ out'.calls[i].voice \in DOMAIN voices
            /\ voices[out'.calls[i].voice].state = "running"
            /\ \A j \in ReleasesIn(out') : out'.calls[j].voice = out'.calls[i].voice => j = i]_vars

C32_Witness ==
    /\ out.op = "noteOff"
    /\ Calls("release") = {}
    /\ \E v \in DOMAIN voices :
          /\ v[1] = out.calls[1].userId
          /\ v[2] = out.calls[1].noteIndex
          /\ voices[v].state = "releasing"
          /\ Cardinality(TimersOf(v)) = 1

StateRank(st) == CASE st = "running" -> 1 [] st = "releasing" -> 2 [] st = "disposed" -> 3

DisposedVoice(o) == o.calls[1].voice

(* C33: a Voice is created running and only moves on to releasing and then *)
(* disposed; only a released Voice is disposed; release schedules the      *)
(* oscillators' stop before the disposal; every released Voice is          *)
(* eventually disposed.                                                    *)
C33_VoiceLifecycleOrder ==
    /\ [][/\ \A v \in DOMAIN voices' :
               IF v \in DOMAIN voices
               THEN StateRank(voices'[v].state) >= StateRank(voices[v].state)
               ELSE voices'[v].state = "running"
          /\ out'.op = "dispose" =>
                /\ DisposedVoice(out') \in DOMAIN voices
                /\ voices[DisposedVoice(out')].state = "releasing"
          /\ \A v \in DOMAIN voices \ DOMAIN voices' :
                out'.op = "dispose" /\ DisposedVoice(out') = v
          /\ \A i \in ReleasesIn(out') :
                \E j \in 1..Len(timers') :
                    /\ timers'[j].voice = out'.calls[i].voice
                    /\ out'.calls[i].stop < timers'[j].delay]_vars
    /\ \A v \in VoiceIds : Releasing(v) ~> Disposed(v)

C33_Witness ==
    /\ out.op = "dispose"
    /\ DisposedVoice(out) \notin DOMAIN voices
    /\ timers # <<>>

(* C35: the firing of a disposal timer disposes the Voice that scheduled   *)
(* it and nothing else: the registry is unchanged, the Voice registered    *)
(* under the same key stays registered and running, and registered Voices  *)
(* are always running.                                                     *)
C35_TimerSparesReplacement ==
    /\ [](\A k \in DOMAIN activeVoices :
            activeVoices[k] \in DOMAIN voices /\ voices[activeVoices[k]].state = "running")
    /\ [][out'.op = "dispose" =>
            /\ activeVoices' = activeVoices
            /\ DisposedVoice(out') \notin Values(activeVoices)
            /\ \A v \in DOMAIN voices \ {DisposedVoice(out')} :
                  v \in DOMAIN voices' /\ voices'[v] = voices[v]]_vars

C35_Witness ==
    /\ out.op = "dispose"
    /\ VoiceKey(DisposedVoice(out)[1], DisposedVoice(out)[2]) \in DOMAIN activeVoices
    /\ voices[activeVoices[VoiceKey(DisposedVoice(out)[1], DisposedVoice(out)[2])]].state = "running"
    /\ timers # <<>>

(* C34: a Voice holds the SynthConfig its noteOn was called with and      *)
(* keeps it: a theme change (SYNC_THEME or local) leaves the registry, the *)
(* Voices and their configs unchanged, no step changes a Voice's config,   *)
(* and release() schedules the disposal from the Voice's own release time. *)
C34_VoiceKeepsCreationConfig ==
    [][/\ AppliedTheme(out') => UNCHANGED <<activeVoices, voices, timers>>
       /\ \A v \in DOMAIN voices \cap DOMAIN voices' : voices'[v].config = voices[v].config
       /\ \A v \in DOMAIN voices' \ DOMAIN voices :
             \E i \in 1..Len(out'.calls) :
                 /\ out'.calls[i].op = "noteOn"
                 /\ out'.calls[i].voice = v
                 /\ out'.calls[i].config = voices'[v].config
       /\ \A i \in ReleasesIn(out') :
             \E j \in 1..Len(timers') :
                 /\ timers'[j].voice = out'.calls[i].voice
                 /\ timers'[j].delay = voices[out'.calls[i].voice].config.release + 200]_vars

C34_Witness ==
    /\ out.op = "keyup"
    /\ Calls("release") # {}
    /\ \A j \in 1..Len(timers) : timers[j].delay # theme.synthConfig.release + 200

IsNote(data) == data.type \in {"NOTE_ON", "NOTE_OFF"}

(* C36: a NOTE_ON or NOTE_OFF that a peer sends once this client's         *)
(* listener is attached is passed to the callback, whatever the peer's     *)
(* clock shows.                                                            *)
C36_FreshNotesPass ==
    [][(/\ DeliverEvent
        /\ "live" \in DOMAIN Head(inbox)
        /\ IsNote(Head(inbox).data))
       => Len(out'.delivered) = 1]_vars

LastNote(p, d) ==
    LET S == {i \in SentNotes(p) : eventsRef[i].payload.noteIndex = d}
    IN eventsRef[CHOOSE i \in S : \A j \in S : j <= i]

(* C37: if a NOTE_ON of a sender passes the replay filter, so does every   *)
(* NOTE_OFF the sender sends later; a registered Voice of the sender is    *)
(* released when the NOTE_OFF for its degree is delivered; and once all    *)
(* is delivered, no Voice is registered for a degree whose last note       *)
(* message is a NOTE_OFF.                                                  *)
C37_NoStrandedNote ==
    /\ [](Connected =>
            \A p \in RemoteIds : \A i, j \in SentNotes(p) :
                (/\ i < j
                 /\ eventsRef[i].type = "NOTE_ON"
                 /\ eventsRef[j].type = "NOTE_OFF"
                 /\ PassesReplayFilter(eventsRef[i], startTime))
                => PassesReplayFilter(eventsRef[j], startTime))
    /\ [][\A p \in RemoteIds : \A d \in 0..MaxEngNote :
            (/\ DeliverEvent
             /\ Head(inbox).data.type = "NOTE_OFF"
             /\ Head(inbox).data.senderId = p
             /\ Head(inbox).data.payload.noteIndex = d
             /\ VoiceKey(p, d) \in DOMAIN activeVoices)
            => /\ VoiceKey(p, d) \notin DOMAIN activeVoices'
               /\ voices'[activeVoices[VoiceKey(p, d)]].state = "releasing"]_vars
    /\ [](\A p \in RemoteIds : \A d \in 0..MaxEngNote :
            (/\ Connected
             /\ inbox = <<>>
             /\ \E i \in SentNotes(p) : eventsRef[i].payload.noteIndex = d
             /\ LastNote(p, d).type = "NOTE_OFF")
            => VoiceKey(p, d) \notin DOMAIN activeVoices)

C37_Witness ==
    /\ out.op = "event"
    /\ NoteDelivered(out, "NOTE_OFF")
    /\ Calls("release") # {}
    /\ \E i \in SentNotes(PeerId) : eventsRef[i].type = "NOTE_ON" /\ eventsRef[i].timestamp < startTime

(* C38: the remote roster never holds two entries with the same id,        *)
(* whatever JOIN payloads (id missing, or not the senderId) and LEAVE      *)
(* messages have been processed.                                           *)
C38_RosterIdsUnique ==
    \A i, j \in 1..Len(remoteUsers) : remoteUsers[i].id = remoteUsers[j].id => i = j

PairIds == {e.senderId : e \in PairEvents}

RECURSIVE MessagesOf(_, _)
MessagesOf(log, p) ==
    IF log = <<>> THEN <<>>
    ELSE IF Head(log).senderId = p THEN <<Head(log)>> \o MessagesOf(Tail(log), p)
         ELSE MessagesOf(Tail(log), p)

RECURSIVE Replay(_, _)
Replay(st, msgs) ==
    IF msgs = <<>> THEN st
    ELSE Replay(HandleRemoteMessage(st, Head(msgs), TRUE), Tail(msgs))

Alone(p) ==
    Replay([localId |-> LocalId, remoteUsers |-> <<>>, theme |-> DEFAULT_THEME,
            overrideScale |-> "",
            e |-> [ctx |-> 1, activeVoices |-> <<>>, voices |-> <<>>, timers |-> <<>>,
                   calls |-> <<>>]],
           MessagesOf(eventsRef, p))

(* C31: after any interleaving of the messages of two remote senders, the  *)
(* roster entries of each sender (held notes and effects included) and the *)
(* registry keys of each sender are those that the sender's own messages,  *)
(* processed alone in their order, produce; so they are the same for       *)
(* every interleaving.                                                     *)
C31_InterleavingIndependent ==
    startTime # 0 =>
        /\ RosterIds \subseteq PairIds
        /\ \A p \in PairIds :
              /\ {remoteUsers[i] : i \in Find(remoteUsers, p)} = Range(Alone(p).remoteUsers)
              /\ {k \in DOMAIN activeVoices : k[1] = p} = DOMAIN Alone(p).e.activeVoices

C31_Witness ==
    /\ Len(eventsRef) = MaxLog
    /\ eventsRef[1].senderId # eventsRef[2].senderId
    /\ eventsRef[2].senderId # eventsRef[3].senderId
    /\ \A p \in PairIds :
          /\ \E i \in Find(remoteUsers, p) : remoteUsers[i].activeNotes # <<>>
          /\ \E k \in DOMAIN activeVoices : k[1] = p

====
